---- MODULE Spec2Model ----
(***************************************************************************)
(* A model of the LLM agent of src/llm.py and of its two endpoints in      *)
(* src/main.py: the planning step (evaluate_prompt), the tool loop of      *)
(* respond and of respond_streaming, the synthesis step, and the token     *)
(* buffer of _stream_llm_tokens.                                           *)
(*                                                                         *)
(* Texts that the program parses or serialises (the planning model's       *)
(* output, the tool results embedded in the synthesis prompt) are          *)
(* sequences of JSON tokens; streamed text is a sequence of characters.    *)
(***************************************************************************)
EXTENDS Integers, Sequences, FiniteSets, TLC

(***************************************************************************)
(* Python values, as far as JSON carries them.  A dict is a sequence of    *)
(* <<key, value>> pairs with distinct keys, in insertion order.            *)
(***************************************************************************)
JNull == [k |-> "null"]
JNum(n) == [k |-> "num", n |-> n]
JStr(s) == [k |-> "str", s |-> s]
JList(items) == [k |-> "list", items |-> items]
JDict(pairs) == [k |-> "dict", pairs |-> pairs]

IsDict(v) == v.k = "dict"
IsList(v) == v.k = "list"

\* key in d
HasKey(d, key) == \E i \in 1..Len(d.pairs) : d.pairs[i][1] = key

\* d.get(key, default)
DictGet(d, key, default) ==
    IF HasKey(d, key)
    THEN LET i == CHOOSE j \in 1..Len(d.pairs) : d.pairs[j][1] = key
         IN  d.pairs[i][2]
    ELSE default

\* d[key] = val: an existing key keeps its place, a new key goes last
DictSet(d, key, val) ==
    IF HasKey(d, key)
    THEN JDict([i \in 1..Len(d.pairs) |->
                   IF d.pairs[i][1] = key THEN <<key, val>> ELSE d.pairs[i]])
    ELSE JDict(Append(d.pairs, <<key, val>>))

\* bool(v): None, 0, "", [] and {} are falsy
Truthy(v) ==
    CASE v.k = "null" -> FALSE
      [] v.k = "num"  -> v.n # 0
      [] v.k = "str"  -> v.s # ""
      [] v.k = "list" -> v.items # <<>>
      [] v.k = "dict" -> v.pairs # <<>>

(***************************************************************************)
(* JSON text: a sequence of tokens.  A word is bare text that is no JSON   *)
(* literal.                                                                *)
(***************************************************************************)
Punct(c) == [t |-> c]
StrTok(s) == [t |-> "str", s |-> s]
NumTok(n) == [t |-> "num", n |-> n]
NullTok == [t |-> "null"]
WordTok(s) == [t |-> "word", s |-> s]

RECURSIVE Dumps(_)
RECURSIVE DumpsItems(_)
RECURSIVE DumpsPairs(_)

\* json.dumps of the elements of a list, comma separated
DumpsItems(items) ==
    IF items = <<>> THEN <<>>
    ELSE IF Len(items) = 1 THEN Dumps(items[1])
    ELSE Dumps(items[1]) \o <<Punct(",")>> \o DumpsItems(Tail(items))

\* json.dumps of the members of a dict, comma separated
DumpsPairs(pairs) ==
    IF pairs = <<>> THEN <<>>
    ELSE LET m == <<StrTok(pairs[1][1]), Punct(":")>> \o Dumps(pairs[1][2])
         IN  IF Len(pairs) = 1 THEN m
             ELSE m \o <<Punct(",")>> \o DumpsPairs(Tail(pairs))

\* json.dumps(v)
Dumps(v) ==
    CASE v.k = "null" -> <<NullTok>>
      [] v.k = "num"  -> <<NumTok(v.n)>>
      [] v.k = "str"  -> <<StrTok(v.s)>>
      [] v.k = "list" -> <<Punct("[")>> \o DumpsItems(v.items) \o <<Punct("]")>>
      [] v.k = "dict" -> <<Punct("{")>> \o DumpsPairs(v.pairs) \o <<Punct("}")>>

\* A parse step: the value read and the tokens left, or a failure.
ParseOk(v, rest) == [ok |-> TRUE, val |-> v, rest |-> rest]
ParseFail == [ok |-> FALSE]

RECURSIVE ParseValue(_)
RECURSIVE ParseElements(_, _)
RECURSIVE ParseMembers(_, _)

\* the elements of an array after "[" or ","; acc holds those read so far
ParseElements(toks, acc) ==
    LET r == ParseValue(toks) IN
    IF ~r.ok \/ r.rest = <<>> THEN ParseFail
    ELSE IF Head(r.rest).t = "," THEN ParseElements(Tail(r.rest), Append(acc, r.val))
    ELSE IF Head(r.rest).t = "]" THEN ParseOk(JList(Append(acc, r.val)), Tail(r.rest))
    ELSE ParseFail

\* the members of an object after "{" or ","; acc is the dict read so far
ParseMembers(toks, acc) ==
    IF Len(toks) < 2 \/ toks[1].t # "str" \/ toks[2].t # ":" THEN ParseFail
    ELSE LET r == ParseValue(SubSeq(toks, 3, Len(toks))) IN
         IF ~r.ok \/ r.rest = <<>> THEN ParseFail
         ELSE IF Head(r.rest).t = ","
              THEN ParseMembers(Tail(r.rest), DictSet(acc, toks[1].s, r.val))
         ELSE IF Head(r.rest).t = "}"
              THEN ParseOk(DictSet(acc, toks[1].s, r.val), Tail(r.rest))
         ELSE ParseFail

\* one JSON value at the head of toks
ParseValue(toks) ==
    IF toks = <<>> THEN ParseFail
    ELSE LET h == Head(toks)
             rest == Tail(toks)
         IN  CASE h.t = "null" -> ParseOk(JNull, rest)
               [] h.t = "num"  -> ParseOk(JNum(h.n), rest)
               [] h.t = "str"  -> ParseOk(JStr(h.s), rest)
               [] h.t = "["    -> IF rest # <<>> /\ Head(rest).t = "]"
                                  THEN ParseOk(JList(<<>>), Tail(rest))
                                  ELSE ParseElements(rest, <<>>)
               [] h.t = "{"    -> IF rest # <<>> /\ Head(rest).t = "}"
                                  THEN ParseOk(JDict(<<>>), Tail(rest))
                                  ELSE ParseMembers(rest, JDict(<<>>))
               [] OTHER        -> ParseFail

\* json.loads(text): the value, or a JSONDecodeError (also on trailing data)
JsonLoads(text) ==
    LET r == ParseValue(text) IN
    IF r.ok /\ r.rest = <<>> THEN [ok |-> TRUE, val |-> r.val] ELSE [ok |-> FALSE]


(***************************************************************************)
(* Outcomes of a call: a returned value or a raised exception, which       *)
(* carries str(e).                                                         *)
(***************************************************************************)
Return(v) == [ok |-> TRUE, val |-> v]
Raise(msg) == [ok |-> FALSE, error |-> msg]

\* The network as a tool's HTTP request finds it.
NetStates == {"up", "down"}

\* FinanceTool.execute(**kwargs)
FinanceToolExecute(kwargs, net) ==
    LET query_type == DictGet(kwargs, "type", JStr("stock"))
        symbol == DictGet(kwargs, "symbol", JNull)
    IN  IF ~Truthy(symbol)
        THEN Raise("Missing 'symbol' argument for FinanceTool.execute()")
        ELSE IF query_type \in {JStr("stock"), JStr("crypto"), JStr("forex")}
        THEN IF net = "down"
             THEN Return(JDict(<< <<"error", JStr("request failed")>>,
                                  <<"symbol", symbol>>, <<"type", query_type>>,
                                  <<"data", JDict(<<>>)>>,
                                  <<"source", JStr("finnhub")>> >>))
             ELSE Return(JDict(<< <<"symbol", symbol>>, <<"type", query_type>>,
                                  <<"data", JDict(<< <<"c", JNum(1)>> >>)>>,
                                  <<"source", JStr("finnhub")>> >>))
        ELSE Raise("Unsupported type for FinanceTool.")

\* WebSearchTool.execute(**kwargs)
WebSearchToolExecute(kwargs, net) ==
    LET query == DictGet(kwargs, "query", JNull)
    IN  IF ~Truthy(query)
        THEN Raise("Missing 'query' argument for WebSearchTool.execute()")
        ELSE IF net = "down"
        THEN Return(JDict(<< <<"query", query>>,
                             <<"error", JStr("request failed")>>,
                             <<"results", JList(<<>>)>>,
                             <<"source", JStr("google_custom_search_api")>> >>))
        ELSE Return(JDict(<< <<"query", query>>,
                             <<"results", JList(<<JStr("hit")>>)>>,
                             <<"source", JStr("google_custom_search_api")>> >>))

\* tools = [FinanceTool(), WebSearchTool()], indexed by name in Agent.__init__
Registry == {"FinanceTool", "WebSearchTool"}

\* tool.execute(**kwargs) of the registered tool of that name
ToolExecute(name, kwargs, net) ==
    IF name = "FinanceTool" THEN FinanceToolExecute(kwargs, net)
    ELSE WebSearchToolExecute(kwargs, net)

\* call_tool with a bug: a name that is not registered is served by the
\* web search tool.
CallToolFallsBack(registry, tool_name, args, net) ==
    IF ~IsDict(args) THEN Raise("argument after ** must be a mapping")
    ELSE IF tool_name.s \notin registry
    THEN WebSearchToolExecute(args, net)
    ELSE ToolExecute(tool_name.s, args, net)

\* Agent.call_tool(tool_name, **args), tool_name a string.  Unpacking
\* **args raises TypeError before the call when args is no mapping.
CallTool(registry, tool_name, args, net) ==
    IF ~IsDict(args) THEN Raise("argument after ** must be a mapping")
    ELSE IF tool_name.s \notin registry
    THEN Raise("Tool '" \o tool_name.s \o "' not registered.")
    ELSE ToolExecute(tool_name.s, args, net)

\* tool_name = plan.get("tool")
PlanTool(plan) == DictGet(plan, "tool", JNull)

\* args = plan.get("args", {}) or {}
PlanArgs(plan) ==
    LET a == DictGet(plan, "args", JDict(<<>>))
    IN  IF Truthy(a) THEN a ELSE JDict(<<>>)

\* [{"tool": None, "args": {}}]
SentinelPlans == JList(<<JDict(<< <<"tool", JNull>>, <<"args", JDict(<<>>)>> >>)>>)

\* evaluate_prompt with a bug: the plans without a tool name are dropped.
EvaluatePromptDropsUnnamed(llm_output) ==
    LET parsed == JsonLoads(llm_output)
        HasTool(p) == IsDict(p) /\ Truthy(PlanTool(p))
    IN  IF ~parsed.ok THEN SentinelPlans
        ELSE IF IsDict(parsed.val) /\ HasKey(parsed.val, "plans")
        THEN LET v == DictGet(parsed.val, "plans", JNull)
             IN  IF IsList(v) THEN JList(SelectSeq(v.items, HasTool)) ELSE v
        ELSE IF IsDict(parsed.val) THEN JList(<<parsed.val>>)
        ELSE SentinelPlans

\* evaluate_prompt with a bug: an object without a "tool" key is refused.
EvaluatePromptRequiresTool(llm_output) ==
    LET parsed == JsonLoads(llm_output)
    IN  IF ~parsed.ok THEN SentinelPlans
        ELSE IF IsDict(parsed.val) /\ HasKey(parsed.val, "plans")
        THEN DictGet(parsed.val, "plans", JNull)
        ELSE IF IsDict(parsed.val) /\ HasKey(parsed.val, "tool")
        THEN JList(<<parsed.val>>)
        ELSE SentinelPlans

\* Agent.evaluate_prompt, from the planning model's output on: what it
\* returns for llm_output.
EvaluatePrompt(llm_output) ==
    LET parsed == JsonLoads(llm_output)
    IN  IF ~parsed.ok THEN SentinelPlans
        ELSE IF IsDict(parsed.val) /\ HasKey(parsed.val, "plans")
        THEN DictGet(parsed.val, "plans", JNull)
        ELSE IF IsDict(parsed.val) THEN JList(<<parsed.val>>)
        ELSE SentinelPlans

(***************************************************************************)
(* What the planning model may answer.  A reply is a JSON document, sent   *)
(* whole or damaged the way model output is: cut short, followed by a      *)
(* stray token, or wrapped in prose.                                       *)
(***************************************************************************)
MaxPlans == 2

PlanFinance ==
    JDict(<< <<"tool", JStr("FinanceTool")>>,
             <<"args", JDict(<< <<"symbol", JStr("AAPL")>> >>)>> >>)
PlanFinanceNoSymbol ==
    JDict(<< <<"tool", JStr("FinanceTool")>>, <<"args", JDict(<<>>)>> >>)
PlanWebSearch ==
    JDict(<< <<"tool", JStr("WebSearchTool")>>,
             <<"args", JDict(<< <<"query", JStr("Q3 earnings news")>> >>)>> >>)
PlanArgsNoMapping ==
    JDict(<< <<"tool", JStr("WebSearchTool")>>, <<"args", JList(<<JStr("q")>>)>> >>)
PlanUnregistered ==
    JDict(<< <<"tool", JStr("Calculator")>>, <<"args", JNull>> >>)
PlanNullTool == JDict(<< <<"tool", JNull>>, <<"args", JDict(<<>>)>> >>)
PlanEmptyName == JDict(<< <<"tool", JStr("")>>, <<"args", JNull>> >>)
PlanNoKeys == JDict(<<>>)

\* The plan objects, and one list element that is no object.
PlanObjects ==
    {PlanFinance, PlanFinanceNoSymbol, PlanWebSearch, PlanArgsNoMapping,
     PlanUnregistered, PlanNullTool, PlanEmptyName, PlanNoKeys}
PlanElems == PlanObjects \cup {JNum(5)}

PlanLists(n) == UNION {[1..len -> PlanElems] : len \in 0..n}

PlansDoc(v) == JDict(<< <<"plans", v>> >>)

\* {"plans": [...]}, {"plans": <no list>}, a bare plan object, other JSON
ListDocs(n) == {PlansDoc(JList(L)) : L \in PlanLists(n)}
NoListDocs == {PlansDoc(JNum(5)), PlansDoc(JNull)}
OtherDocs == {JNum(5), JNull, JStr("hello"), JList(<<PlanFinance>>)}

Replies ==
    [doc : ListDocs(MaxPlans) \cup NoListDocs \cup PlanObjects \cup OtherDocs,
     damage : {"none"}]
    \cup
    [doc : ListDocs(1) \cup NoListDocs \cup PlanObjects \cup OtherDocs,
     damage : {"truncated", "trailing", "prose"}]

\* The text of a reply: what LLMClient.generate returns for it.
Render(rep) ==
    LET text == Dumps(rep.doc)
    IN  CASE rep.damage = "none"      -> text
          [] rep.damage = "truncated" -> SubSeq(text, 1, Len(text) - 1)
          [] rep.damage = "trailing"  -> text \o <<Punct("}")>>
          [] rep.damage = "prose"     -> <<WordTok("Here"), WordTok("is"),
                                           WordTok("the"), WordTok("plan"),
                                           Punct(":")>> \o text

NoReply == [doc |-> JNull, damage |-> "unset"]

(***************************************************************************)
(* The token stream.  An upstream delta carries text or no content; text   *)
(* is a sequence of characters.  Time is in milliseconds.                  *)
(***************************************************************************)
MaxFragments == 3
flush_interval == 50
buffer_size == 20

NoContent == [has |-> FALSE]
Content(text) == [has |-> TRUE, text |-> text]

Word10 == <<"e", "a", "r", "n", "i", "n", "g", "s", "u", "p">>
Deltas ==
    {NoContent, Content(<<>>), Content(<<"a">>), Content(<<"o", "k", ".">>),
     Content(Word10)}
Delays == {0, 30, 200}

\* LLMClient.generate_and_stream: the fragment yielded for one upstream chunk,
\* chunk.choices[0].delta.content or ""
GenerateAndStreamYield(delta) == IF delta.has THEN delta.text ELSE <<>>

Breakpoints == {" ", "\n", ".", ",", ":", ";", "!", "?", "\t"}

\* should_flush with a bug: the size condition wants the buffer longer than
\* buffer_size.
ShouldFlushAboveSize(buf, time_since_send) ==
    \/ Len(buf) > buffer_size
    \/ time_since_send >= flush_interval
    \/ (buf # <<>> /\ buf[Len(buf)] \in Breakpoints)

\* should_flush of _stream_llm_tokens
ShouldFlush(buf, time_since_send) ==
    \/ Len(buf) >= buffer_size
    \/ time_since_send >= flush_interval
    \/ (buf # <<>> /\ buf[Len(buf)] \in Breakpoints)

(***************************************************************************)
(* State.  Every request has its own locals; the registry belongs to the   *)
(* one Agent.                                                              *)
(***************************************************************************)
NumRequests == 2
Requests == 1..NumRequests

VARIABLES
    tools,           \* Agent.tools: the names registered
    pc,              \* where each request stands
    reply,           \* what the planning model answered
    plans,           \* evaluate_prompt's return value
    idx,             \* position of the tool loop in plans
    tool_results,    \* the results map
    exc,             \* the exception that left the pipeline, if any
    sent,            \* the messages delivered on the websocket, in order
    closed,          \* the peer has disconnected: sends raise
    log,             \* calls made to the provider and to call_tool, in order
    buffer,          \* _stream_llm_tokens: buffer
    last_send_time,  \* _stream_llm_tokens: last_send_time
    now,             \* time.time()
    deltas,          \* the upstream chunks received so far
    fragments,       \* what generate_and_stream has yielded so far
    yielded,         \* what _stream_llm_tokens has yielded so far
    pending_since,   \* when the buffer last went from empty to non-empty
    response         \* the HTTP response of the query endpoint

vars == <<tools, pc, reply, plans, idx, tool_results, exc, sent, closed, log,
          buffer, last_send_time, now, deltas, fragments, yielded,
          pending_since, response>>

stream_vars == <<buffer, last_send_time, now, deltas, fragments, yielded,
                 pending_since>>

NoExc == [raised |-> FALSE]
Exc(msg) == [raised |-> TRUE, msg |-> msg]
ProviderError == "provider request failed"
Disconnected == "websocket disconnected"
NoResponse == [status |-> 0]
Unset == [k |-> "unset"]

Init ==
    /\ tools = Registry
    /\ pc = [r \in Requests |-> "idle"]
    /\ reply = [r \in Requests |-> NoReply]
    /\ plans = [r \in Requests |-> Unset]
    /\ idx = [r \in Requests |-> 1]
    /\ tool_results = [r \in Requests |-> JDict(<<>>)]
    /\ exc = [r \in Requests |-> NoExc]
    /\ sent = [r \in Requests |-> <<>>]
    /\ closed = [r \in Requests |-> FALSE]
    /\ log = [r \in Requests |-> <<>>]
    /\ buffer = [r \in Requests |-> <<>>]
    /\ last_send_time = [r \in Requests |-> 0]
    /\ now = 0
    /\ deltas = [r \in Requests |-> <<>>]
    /\ fragments = [r \in Requests |-> <<>>]
    /\ yielded = [r \in Requests |-> <<>>]
    /\ pending_since = [r \in Requests |-> 0]
    /\ response = [r \in Requests |-> NoResponse]

(***************************************************************************)
(* respond_streaming, one action per step between two awaits.              *)
(***************************************************************************)

\* An exception reaches the except clause of respond_streaming.
Escapes(r, msg) ==
    /\ exc' = [exc EXCEPT ![r] = Exc(msg)]
    /\ pc' = [pc EXCEPT ![r] = "s_except"]

\* send_json with a bug: a send on a closed channel is dropped and the
\* pipeline goes on.
SendJsonDropsFailure(r, msg, next_pc) ==
    /\ sent' = [sent EXCEPT ![r] = IF closed[r] THEN @ ELSE Append(@, msg)]
    /\ pc' = [pc EXCEPT ![r] = next_pc]
    /\ UNCHANGED exc

\* await websocket.send_json(msg) inside the try: delivered, or raising
\* because the peer is gone.
SendJson(r, msg, next_pc) ==
    IF closed[r]
    THEN Escapes(r, Disconnected) /\ UNCHANGED sent
    ELSE /\ sent' = [sent EXCEPT ![r] = Append(@, msg)]
         /\ pc' = [pc EXCEPT ![r] = next_pc]
         /\ UNCHANGED exc

\* for plan in plans: the elements the loop visits, or the TypeError of
\* iterating a value that is no container (a dict yields its keys; of a
\* str the loop reads the first character, a str again).
Iterate(v) ==
    CASE v.k = "list" -> Return(v.items)
      [] v.k = "dict" -> Return([i \in 1..Len(v.pairs) |-> JStr(v.pairs[i][1])])
      [] v.k = "str"  -> Return(IF v.s = "" THEN <<>> ELSE <<JStr(v.s)>>)
      [] OTHER        -> Raise("object is not iterable")

\* {"error": str(e)}
ErrorRecord(msg) == JDict(<< <<"error", JStr(msg)>> >>)

\* The plan the loop stands at.
CurrentPlan(r) == Iterate(plans[r]).val[idx[r]]
AtPlan(r) == Iterate(plans[r]).ok /\ idx[r] <= Len(Iterate(plans[r]).val)

\* websocket_endpoint: await websocket.accept(), then respond_streaming
WebsocketConnect(r) ==
    /\ pc[r] = "idle"
    /\ pc' = [pc EXCEPT ![r] = "s_start"]
    /\ UNCHANGED <<tools, reply, plans, idx, tool_results, exc, sent, closed,
                   log, stream_vars, response>>

\* The remote peer closes the connection.
PeerCloses(r) ==
    /\ pc[r] \in {"s_start", "s_plan", "s_send_plan", "s_loop", "s_call",
                  "s_send_result", "s_send_error", "s_open", "s_stream",
                  "s_flush", "s_final_flush", "s_send_done", "s_except"}
    /\ ~closed[r]
    /\ closed' = [closed EXCEPT ![r] = TRUE]
    /\ UNCHANGED <<tools, pc, reply, plans, idx, tool_results, exc, sent, log,
                   stream_vars, response>>

\* send_json({"status": "thinking", ...})
SendThinking(r) ==
    /\ pc[r] = "s_start"
    /\ SendJson(r, [status |-> "thinking"], "s_plan")
    /\ UNCHANGED <<tools, reply, plans, idx, tool_results, closed, log,
                   stream_vars, response>>

\* plans = self.evaluate_prompt(user_input): the provider answers or fails
StreamPlan(r, answers) ==
    /\ pc[r] = "s_plan"
    /\ log' = [log EXCEPT ![r] = Append(@, [op |-> "generate"])]
    /\ \/ \E rep \in answers :
             /\ reply' = [reply EXCEPT ![r] = rep]
             /\ plans' = [plans EXCEPT ![r] = EvaluatePrompt(Render(rep))]
             /\ pc' = [pc EXCEPT ![r] = "s_send_plan"]
             /\ UNCHANGED exc
       \/ /\ Escapes(r, ProviderError)
          /\ UNCHANGED <<reply, plans>>
    /\ UNCHANGED <<tools, idx, tool_results, sent, closed, stream_vars, response>>

\* send_json({"status": "plan", "data": plans}); tool_results = {}
SendPlan(r) ==
    /\ pc[r] = "s_send_plan"
    /\ SendJson(r, [status |-> "plan", data |-> plans[r]], "s_loop")
    /\ UNCHANGED <<tools, reply, plans, idx, tool_results, closed, log,
                   stream_vars, response>>

\* The loop cannot go on: plans is not iterable, or the element has no get.
StreamLoopRaises(r) ==
    /\ pc[r] = "s_loop"
    /\ \/ /\ ~Iterate(plans[r]).ok
          /\ Escapes(r, Iterate(plans[r]).error)
       \/ /\ AtPlan(r)
          /\ ~IsDict(CurrentPlan(r))
          /\ Escapes(r, "object has no attribute 'get'")
    /\ UNCHANGED <<tools, reply, plans, idx, tool_results, sent, closed, log,
                   stream_vars, response>>

\* if not tool_name: continue
StreamSkipPlan(r) ==
    /\ pc[r] = "s_loop"
    /\ AtPlan(r)
    /\ IsDict(CurrentPlan(r))
    /\ ~Truthy(PlanTool(CurrentPlan(r)))
    /\ idx' = [idx EXCEPT ![r] = @ + 1]
    /\ UNCHANGED <<tools, pc, reply, plans, tool_results, exc, sent, closed,
                   log, stream_vars, response>>

\* send_json({"status": "tool_calling", "tool": tool_name, "args": args, ...})
SendToolCalling(r) ==
    /\ pc[r] = "s_loop"
    /\ AtPlan(r)
    /\ IsDict(CurrentPlan(r))
    /\ Truthy(PlanTool(CurrentPlan(r)))
    /\ SendJson(r, [status |-> "tool_calling",
                    tool |-> PlanTool(CurrentPlan(r)),
                    args |-> PlanArgs(CurrentPlan(r))], "s_call")
    /\ UNCHANGED <<tools, reply, plans, idx, tool_results, closed, log,
                   stream_vars, response>>

\* The record of one call_tool in the log.
ToolCall(tool_name, args, out) ==
    [op |-> "call_tool", tool |-> tool_name, args |-> args, out |-> out]

\* The streaming tool step with a bug: a raising tool is not caught and its
\* exception leaves the loop.
StreamCallToolAborts(r) ==
    /\ pc[r] = "s_call"
    /\ \E net \in NetStates :
         LET tool_name == PlanTool(CurrentPlan(r))
             args == PlanArgs(CurrentPlan(r))
             out == CallTool(tools, tool_name, args, net)
         IN  /\ log' = [log EXCEPT ![r] = Append(@, ToolCall(tool_name, args, out))]
             /\ IF out.ok
                THEN /\ tool_results' = [tool_results EXCEPT ![r] =
                                            DictSet(@, tool_name.s, out.val)]
                     /\ pc' = [pc EXCEPT ![r] = "s_send_result"]
                     /\ UNCHANGED exc
                ELSE /\ Escapes(r, out.error)
                     /\ UNCHANGED tool_results
    /\ UNCHANGED <<tools, reply, plans, idx, sent, closed, stream_vars, response>>

\* The streaming tool step with a bug: the tool is called without the
\* arguments of its plan.
StreamCallToolDropsArgs(r) ==
    /\ pc[r] = "s_call"
    /\ \E net \in NetStates :
         LET tool_name == PlanTool(CurrentPlan(r))
             args == JDict(<<>>)
             out == CallTool(tools, tool_name, args, net)
         IN  /\ log' = [log EXCEPT ![r] = Append(@, ToolCall(tool_name, args, out))]
             /\ IF out.ok
                THEN /\ tool_results' = [tool_results EXCEPT ![r] =
                                            DictSet(@, tool_name.s, out.val)]
                     /\ pc' = [pc EXCEPT ![r] = "s_send_result"]
                ELSE /\ tool_results' = [tool_results EXCEPT ![r] =
                                            DictSet(@, tool_name.s, ErrorRecord(out.error))]
                     /\ pc' = [pc EXCEPT ![r] = "s_send_error"]
    /\ UNCHANGED <<tools, reply, plans, idx, exc, sent, closed, stream_vars,
                   response>>

\* result = self.call_tool(tool_name, **args); tool_results[tool_name] = result,
\* or, in the except clause, tool_results[tool_name] = {"error": str(e)}
StreamCallTool(r) ==
    /\ pc[r] = "s_call"
    /\ \E net \in NetStates :
         LET tool_name == PlanTool(CurrentPlan(r))
             args == PlanArgs(CurrentPlan(r))
             out == CallTool(tools, tool_name, args, net)
         IN  /\ log' = [log EXCEPT ![r] = Append(@, ToolCall(tool_name, args, out))]
             /\ IF out.ok
                THEN /\ tool_results' = [tool_results EXCEPT ![r] =
                                            DictSet(@, tool_name.s, out.val)]
                     /\ pc' = [pc EXCEPT ![r] = "s_send_result"]
                ELSE /\ tool_results' = [tool_results EXCEPT ![r] =
                                            DictSet(@, tool_name.s, ErrorRecord(out.error))]
                     /\ pc' = [pc EXCEPT ![r] = "s_send_error"]
    /\ UNCHANGED <<tools, reply, plans, idx, exc, sent, closed, stream_vars,
                   response>>

\* The step after a successful tool with a bug: no tool_result event is
\* sent.
SendToolResultSilent(r) ==
    /\ pc[r] = "s_send_result"
    /\ idx' = [idx EXCEPT ![r] = @ + 1]
    /\ pc' = [pc EXCEPT ![r] = "s_loop"]
    /\ UNCHANGED <<tools, reply, plans, tool_results, exc, sent, closed, log,
                   stream_vars, response>>

\* send_json({"status": "tool_result", ...}), still inside the inner try: a
\* failed send lands in the same except clause as a failed tool
SendToolResult(r) ==
    /\ pc[r] = "s_send_result"
    /\ LET tool_name == PlanTool(CurrentPlan(r))
       IN  IF closed[r]
           THEN /\ tool_results' = [tool_results EXCEPT ![r] =
                                       DictSet(@, tool_name.s, ErrorRecord(Disconnected))]
                /\ pc' = [pc EXCEPT ![r] = "s_send_error"]
                /\ UNCHANGED <<sent, idx>>
           ELSE /\ sent' = [sent EXCEPT ![r] =
                               Append(@, [status |-> "tool_result", tool |-> tool_name,
                                          result |-> DictGet(tool_results[r], tool_name.s, JNull)])]
                /\ idx' = [idx EXCEPT ![r] = @ + 1]
                /\ pc' = [pc EXCEPT ![r] = "s_loop"]
                /\ UNCHANGED tool_results
    /\ UNCHANGED <<tools, reply, plans, exc, closed, log, stream_vars, response>>

\* The except clause with a bug: the tool_error event is not sent.
SendToolErrorSilent(r) ==
    /\ pc[r] = "s_send_error"
    /\ pc' = [pc EXCEPT ![r] = "s_loop"]
    /\ idx' = [idx EXCEPT ![r] = @ + 1]
    /\ UNCHANGED <<tools, reply, plans, tool_results, exc, sent, closed, log,
                   stream_vars, response>>

\* send_json({"status": "tool_error", ...}) in the except clause
SendToolError(r) ==
    /\ pc[r] = "s_send_error"
    /\ LET tool_name == PlanTool(CurrentPlan(r))
       IN  SendJson(r, [status |-> "tool_error", tool |-> tool_name,
                        error |-> DictGet(DictGet(tool_results[r], tool_name.s, JNull),
                                          "error", JNull).s], "s_loop")
    /\ idx' = [idx EXCEPT ![r] = IF closed[r] THEN @ ELSE @ + 1]
    /\ UNCHANGED <<tools, reply, plans, tool_results, closed, log, stream_vars,
                   response>>

\* The end of the tool loop with a bug: stream_start is sent, and the
\* synthesis follows, while plans are still waiting.
SendStreamStartEarly(r) ==
    /\ pc[r] = "s_loop"
    /\ Iterate(plans[r]).ok
    /\ SendJson(r, [status |-> "stream_start"], "s_open")
    /\ UNCHANGED <<tools, reply, plans, idx, tool_results, closed, log,
                   stream_vars, response>>

\* After the loop: send_json({"status": "stream_start", ...})
SendStreamStart(r) ==
    /\ pc[r] = "s_loop"
    /\ Iterate(plans[r]).ok
    /\ idx[r] > Len(Iterate(plans[r]).val)
    /\ SendJson(r, [status |-> "stream_start"], "s_open")
    /\ UNCHANGED <<tools, reply, plans, idx, tool_results, closed, log,
                   stream_vars, response>>

(***************************************************************************)
(* _stream_llm_tokens, driven by respond_streaming's async for.            *)
(***************************************************************************)

\* The synthesis request as the log records it.
SynthesisCall(op, tool_output) ==
    [op |-> op, prompt |-> "response", tool_output |-> tool_output]

\* final_prompt = get_response_prompt(..., tool_output=json.dumps(tool_results));
\* then the generator starts: buffer = "", last_send_time = time.time(), and
\* generate_and_stream sends the request, which the provider accepts or fails
StreamOpen(r, delays) ==
    /\ pc[r] = "s_open"
    /\ log' = [log EXCEPT ![r] =
                  Append(@, SynthesisCall("generate_and_stream", Dumps(tool_results[r])))]
    /\ buffer' = [buffer EXCEPT ![r] = <<>>]
    /\ last_send_time' = [last_send_time EXCEPT ![r] = now]
    /\ \/ \E d \in delays :
             /\ now' = now + d
             /\ pc' = [pc EXCEPT ![r] = "s_stream"]
             /\ UNCHANGED exc
       \/ /\ Escapes(r, ProviderError)
          /\ UNCHANGED now
    /\ UNCHANGED <<tools, reply, plans, idx, tool_results, sent, closed, deltas,
                   fragments, yielded, pending_since, response>>

\* One turn of the fragment loop with a bug: the buffer is one object that
\* all requests share, the buffer of the first request.
RecvFragmentSharedBuffer(r, upstream, delays) ==
    /\ pc[r] = "s_stream"
    /\ Len(deltas[r]) < MaxFragments
    /\ \E delta \in upstream, d \in delays :
         LET chunk == GenerateAndStreamYield(delta)
             current_time == now + d
             buf == buffer[1] \o chunk
         IN  /\ now' = current_time
             /\ deltas' = [deltas EXCEPT ![r] = Append(@, delta)]
             /\ fragments' = [fragments EXCEPT ![r] = Append(@, chunk)]
             /\ IF chunk = <<>>
                THEN UNCHANGED <<buffer, pending_since, pc>>
                ELSE /\ buffer' = [buffer EXCEPT ![1] = buf]
                     /\ pending_since' = [pending_since EXCEPT ![r] =
                                             IF buffer[1] = <<>> THEN current_time ELSE @]
                     /\ pc' = [pc EXCEPT ![r] =
                                  IF ShouldFlush(buf, current_time - last_send_time[r])
                                  THEN "s_flush" ELSE "s_stream"]
    /\ UNCHANGED <<tools, reply, plans, idx, tool_results, exc, sent, closed,
                   log, last_send_time, yielded, response>>

\* One turn of "for chunk in generate_and_stream(...)": the next upstream
\* chunk arrives after a delay; an empty fragment is skipped, any other is
\* appended and the flush conditions are evaluated.
RecvFragment(r, upstream, delays) ==
    /\ pc[r] = "s_stream"
    /\ Len(deltas[r]) < MaxFragments
    /\ \E delta \in upstream, d \in delays :
         LET chunk == GenerateAndStreamYield(delta)
             current_time == now + d
             buf == buffer[r] \o chunk
         IN  /\ now' = current_time
             /\ deltas' = [deltas EXCEPT ![r] = Append(@, delta)]
             /\ fragments' = [fragments EXCEPT ![r] = Append(@, chunk)]
             /\ IF chunk = <<>>
                THEN UNCHANGED <<buffer, pending_since, pc>>
                ELSE /\ buffer' = [buffer EXCEPT ![r] = buf]
                     /\ pending_since' = [pending_since EXCEPT ![r] =
                                             IF buffer[r] = <<>> THEN current_time ELSE @]
                     /\ pc' = [pc EXCEPT ![r] =
                                  IF ShouldFlush(buf, current_time - last_send_time[r])
                                  THEN "s_flush" ELSE "s_stream"]
    /\ UNCHANGED <<tools, reply, plans, idx, tool_results, exc, sent, closed,
                   log, last_send_time, yielded, response>>

\* flush_buffer with a bug: the buffer is sent and yielded whether or not it
\* holds text.
FlushBufferAlways(r, next_pc) ==
    IF closed[r]
    THEN /\ Escapes(r, Disconnected)
         /\ UNCHANGED <<sent, buffer, last_send_time, yielded>>
    ELSE /\ sent' = [sent EXCEPT ![r] = Append(@, [text |-> buffer[r]])]
         /\ yielded' = [yielded EXCEPT ![r] = Append(@, buffer[r])]
         /\ buffer' = [buffer EXCEPT ![r] = <<>>]
         /\ last_send_time' = [last_send_time EXCEPT ![r] = now]
         /\ pc' = [pc EXCEPT ![r] = next_pc]
         /\ UNCHANGED exc

\* flush_buffer, and the yield of what it returns: a non-empty buffer is
\* sent with send_text, emptied and yielded; an empty one yields nothing.
FlushBuffer(r, next_pc) ==
    IF buffer[r] # <<>>
    THEN IF closed[r]
         THEN /\ Escapes(r, Disconnected)
              /\ UNCHANGED <<sent, buffer, last_send_time, yielded>>
         ELSE /\ sent' = [sent EXCEPT ![r] = Append(@, [text |-> buffer[r]])]
              /\ yielded' = [yielded EXCEPT ![r] = Append(@, buffer[r])]
              /\ buffer' = [buffer EXCEPT ![r] = <<>>]
              /\ last_send_time' = [last_send_time EXCEPT ![r] = now]
              /\ pc' = [pc EXCEPT ![r] = next_pc]
              /\ UNCHANGED exc
    ELSE /\ pc' = [pc EXCEPT ![r] = next_pc]
         /\ UNCHANGED <<exc, sent, buffer, last_send_time, yielded>>

\* if should_flush: flushed = await flush_buffer()
StreamFlush(r) ==
    /\ pc[r] = "s_flush"
    /\ FlushBuffer(r, "s_stream")
    /\ UNCHANGED <<tools, reply, plans, idx, tool_results, closed, log, now,
                   deltas, fragments, pending_since, response>>

\* The upstream sequence is exhausted.
StreamEnds(r) ==
    /\ pc[r] = "s_stream"
    /\ pc' = [pc EXCEPT ![r] = "s_final_flush"]
    /\ UNCHANGED <<tools, reply, plans, idx, tool_results, exc, sent, closed,
                   log, stream_vars, response>>

\* The provider fails while the stream is read.
StreamFails(r) ==
    /\ pc[r] = "s_stream"
    /\ Escapes(r, ProviderError)
    /\ UNCHANGED <<tools, reply, plans, idx, tool_results, sent, closed, log,
                   stream_vars, response>>

\* The end of the stream with a bug: the remaining buffer is not flushed.
FinalFlushForgotten(r) ==
    /\ pc[r] = "s_final_flush"
    /\ pc' = [pc EXCEPT ![r] = "s_send_done"]
    /\ UNCHANGED <<tools, reply, plans, idx, tool_results, exc, sent, closed,
                   log, stream_vars, response>>

\* Send any remaining buffer at the end
FinalFlush(r) ==
    /\ pc[r] = "s_final_flush"
    /\ FlushBuffer(r, "s_send_done")
    /\ UNCHANGED <<tools, reply, plans, idx, tool_results, closed, log, now,
                   deltas, fragments, pending_since, response>>

\* send_json({"status": "done"})
SendDone(r) ==
    /\ pc[r] = "s_send_done"
    /\ SendJson(r, [status |-> "done"], "s_returned")
    /\ UNCHANGED <<tools, reply, plans, idx, tool_results, closed, log,
                   stream_vars, response>>

\* The except clause with a bug: after the error event the run goes on to
\* its done event.
HandleErrorThenDone(r) ==
    /\ pc[r] = "s_except"
    /\ IF closed[r]
       THEN /\ exc' = [exc EXCEPT ![r] = Exc(Disconnected)]
            /\ pc' = [pc EXCEPT ![r] = "s_raised"]
            /\ UNCHANGED sent
       ELSE /\ sent' = [sent EXCEPT ![r] =
                           Append(@, [status |-> "error", message |-> exc[r].msg])]
            /\ pc' = [pc EXCEPT ![r] = "s_send_done"]
            /\ UNCHANGED exc
    /\ UNCHANGED <<tools, reply, plans, idx, tool_results, closed, log,
                   stream_vars, response>>

\* The except clause with a bug: the failure is swallowed, no error event
\* is sent.
HandleErrorSilent(r) ==
    /\ pc[r] = "s_except"
    /\ pc' = [pc EXCEPT ![r] = "s_returned"]
    /\ UNCHANGED <<tools, reply, plans, idx, tool_results, exc, sent, closed,
                   log, stream_vars, response>>

\* except Exception as e: send_json({"status": "error", "message": str(e)});
\* when this send fails too, its exception leaves respond_streaming
HandleError(r) ==
    /\ pc[r] = "s_except"
    /\ IF closed[r]
       THEN /\ exc' = [exc EXCEPT ![r] = Exc(Disconnected)]
            /\ pc' = [pc EXCEPT ![r] = "s_raised"]
            /\ UNCHANGED sent
       ELSE /\ sent' = [sent EXCEPT ![r] =
                           Append(@, [status |-> "error", message |-> exc[r].msg])]
            /\ pc' = [pc EXCEPT ![r] = "s_returned"]
            /\ UNCHANGED exc
    /\ UNCHANGED <<tools, reply, plans, idx, tool_results, closed, log,
                   stream_vars, response>>

\* websocket_endpoint after respond_streaming: an exception that left it is
\* logged, or answered with an "error" send that is tried and, the peer being
\* gone, fails silently; finally the socket is closed
WebsocketEndpointFinish(r) ==
    /\ pc[r] \in {"s_returned", "s_raised"}
    /\ pc' = [pc EXCEPT ![r] = "ws_done"]
    /\ UNCHANGED <<tools, reply, plans, idx, tool_results, exc, sent, closed,
                   log, stream_vars, response>>

(***************************************************************************)
(* respond, behind the query endpoint.                                     *)
(***************************************************************************)

\* An exception leaves respond.
Propagates(r, msg) ==
    /\ exc' = [exc EXCEPT ![r] = Exc(msg)]
    /\ pc' = [pc EXCEPT ![r] = "r_raised"]

\* query_endpoint: agent.respond(req.prompt)
QueryRequest(r) ==
    /\ pc[r] = "idle"
    /\ pc' = [pc EXCEPT ![r] = "r_start"]
    /\ UNCHANGED <<tools, reply, plans, idx, tool_results, exc, sent, closed,
                   log, stream_vars, response>>

\* plans = self.evaluate_prompt(user_input); tool_results = {}
RespondPlan(r, answers) ==
    /\ pc[r] = "r_start"
    /\ log' = [log EXCEPT ![r] = Append(@, [op |-> "generate"])]
    /\ \/ \E rep \in answers :
             /\ reply' = [reply EXCEPT ![r] = rep]
             /\ plans' = [plans EXCEPT ![r] = EvaluatePrompt(Render(rep))]
             /\ pc' = [pc EXCEPT ![r] = "r_loop"]
             /\ UNCHANGED exc
       \/ /\ Propagates(r, ProviderError)
          /\ UNCHANGED <<reply, plans>>
    /\ UNCHANGED <<tools, idx, tool_results, sent, closed, stream_vars, response>>

\* The loop cannot go on: plans is not iterable, or the element has no get.
RespondLoopRaises(r) ==
    /\ pc[r] = "r_loop"
    /\ \/ /\ ~Iterate(plans[r]).ok
          /\ Propagates(r, Iterate(plans[r]).error)
       \/ /\ AtPlan(r)
          /\ ~IsDict(CurrentPlan(r))
          /\ Propagates(r, "object has no attribute 'get'")
    /\ UNCHANGED <<tools, reply, plans, idx, tool_results, sent, closed, log,
                   stream_vars, response>>

\* if not tool_name: continue
RespondSkipPlan(r) ==
    /\ pc[r] = "r_loop"
    /\ AtPlan(r)
    /\ IsDict(CurrentPlan(r))
    /\ ~Truthy(PlanTool(CurrentPlan(r)))
    /\ idx' = [idx EXCEPT ![r] = @ + 1]
    /\ UNCHANGED <<tools, pc, reply, plans, tool_results, exc, sent, closed,
                   log, stream_vars, response>>

\* The tool step of respond with a bug: a name already in the results map
\* keeps its first entry.
RespondCallToolKeepsFirst(r) ==
    /\ pc[r] = "r_loop"
    /\ AtPlan(r)
    /\ IsDict(CurrentPlan(r))
    /\ Truthy(PlanTool(CurrentPlan(r)))
    /\ \E net \in NetStates :
         LET tool_name == PlanTool(CurrentPlan(r))
             args == PlanArgs(CurrentPlan(r))
             out == CallTool(tools, tool_name, args, net)
         IN  /\ log' = [log EXCEPT ![r] = Append(@, ToolCall(tool_name, args, out))]
             /\ tool_results' = [tool_results EXCEPT ![r] =
                                    IF HasKey(@, tool_name.s) THEN @
                                    ELSE DictSet(@, tool_name.s,
                                                 IF out.ok THEN out.val
                                                 ELSE ErrorRecord(out.error))]
    /\ idx' = [idx EXCEPT ![r] = @ + 1]
    /\ UNCHANGED <<tools, pc, reply, plans, exc, sent, closed, stream_vars,
                   response>>

\* The tool step of respond with a bug: a raising tool is not caught and its
\* exception leaves respond.
RespondCallToolPropagates(r) ==
    /\ pc[r] = "r_loop"
    /\ AtPlan(r)
    /\ IsDict(CurrentPlan(r))
    /\ Truthy(PlanTool(CurrentPlan(r)))
    /\ \E net \in NetStates :
         LET tool_name == PlanTool(CurrentPlan(r))
             args == PlanArgs(CurrentPlan(r))
             out == CallTool(tools, tool_name, args, net)
         IN  /\ log' = [log EXCEPT ![r] = Append(@, ToolCall(tool_name, args, out))]
             /\ IF out.ok
                THEN /\ tool_results' = [tool_results EXCEPT ![r] =
                                            DictSet(@, tool_name.s, out.val)]
                     /\ idx' = [idx EXCEPT ![r] = @ + 1]
                     /\ UNCHANGED <<pc, exc>>
                ELSE /\ Propagates(r, out.error)
                     /\ UNCHANGED <<tool_results, idx>>
    /\ UNCHANGED <<tools, reply, plans, sent, closed, stream_vars, response>>

\* try: tool_results[tool_name] = self.call_tool(tool_name, **args)
\* except Exception as e: tool_results[tool_name] = {"error": str(e)}
RespondCallTool(r) ==
    /\ pc[r] = "r_loop"
    /\ AtPlan(r)
    /\ IsDict(CurrentPlan(r))
    /\ Truthy(PlanTool(CurrentPlan(r)))
    /\ \E net \in NetStates :
         LET tool_name == PlanTool(CurrentPlan(r))
             args == PlanArgs(CurrentPlan(r))
             out == CallTool(tools, tool_name, args, net)
         IN  /\ log' = [log EXCEPT ![r] = Append(@, ToolCall(tool_name, args, out))]
             /\ tool_results' = [tool_results EXCEPT ![r] =
                                    DictSet(@, tool_name.s,
                                            IF out.ok THEN out.val
                                            ELSE ErrorRecord(out.error))]
    /\ idx' = [idx EXCEPT ![r] = @ + 1]
    /\ UNCHANGED <<tools, pc, reply, plans, exc, sent, closed, stream_vars,
                   response>>

\* "No tool results available."
NoResultsMarker == <<WordTok("No tool results available.")>>

\* combined_results of synthesize_response
CombinedResults(results) ==
    IF Truthy(results) THEN Dumps(results) ELSE NoResultsMarker

\* What the synthesis call may return.
Answers == {"final answer"}

\* final_response = self.synthesize_response(user_input, tool_results):
\* one generate call, which returns the text or fails
RespondSynthesize(r) ==
    /\ pc[r] = "r_loop"
    /\ Iterate(plans[r]).ok
    /\ idx[r] > Len(Iterate(plans[r]).val)
    /\ log' = [log EXCEPT ![r] =
                  Append(@, SynthesisCall("generate", CombinedResults(tool_results[r])))]
    /\ \/ \E text \in Answers :
             /\ response' = [response EXCEPT ![r] =
                                [status |-> 0, final_response |-> text]]
             /\ pc' = [pc EXCEPT ![r] = "r_returned"]
             /\ UNCHANGED exc
       \/ /\ Propagates(r, ProviderError)
          /\ UNCHANGED response
    /\ UNCHANGED <<tools, reply, plans, idx, tool_results, sent, closed,
                   stream_vars>>

\* query_endpoint after respond: the AgentResponse, or HTTPException(500)
QueryEndpointFinish(r) ==
    /\ pc[r] \in {"r_returned", "r_raised"}
    /\ response' = [response EXCEPT ![r] =
                       IF pc[r] = "r_returned"
                       THEN [status |-> 200,
                             final_response |-> response[r].final_response,
                             tool_results |-> tool_results[r]]
                       ELSE [status |-> 500, detail |-> exc[r].msg]]
    /\ pc' = [pc EXCEPT ![r] = "http_done"]
    /\ UNCHANGED <<tools, reply, plans, idx, tool_results, exc, sent, closed,
                   log, stream_vars>>

(***************************************************************************)
(* The specifications.                                                     *)
(***************************************************************************)

\* The steps of a request before and beside the token stream, with the
\* planning answers drawn from the given set.
PipelineStep(r, answers) ==
    \/ WebsocketConnect(r)
    \/ SendThinking(r)
    \/ StreamPlan(r, answers)
    \/ SendPlan(r)
    \/ StreamLoopRaises(r)
    \/ StreamSkipPlan(r)
    \/ SendToolCalling(r)
    \/ StreamCallTool(r)
    \/ SendToolResult(r)
    \/ SendToolError(r)
    \/ SendStreamStart(r)
    \/ QueryRequest(r)
    \/ RespondPlan(r, answers)
    \/ RespondLoopRaises(r)
    \/ RespondSkipPlan(r)
    \/ RespondCallTool(r)
    \/ RespondSynthesize(r)
    \/ QueryEndpointFinish(r)

\* The steps of the token stream and what ends respond_streaming, with the
\* upstream chunks and their delays drawn from the given sets.
StreamStep(r, upstream, delays) ==
    \/ PeerCloses(r)
    \/ StreamOpen(r, delays)
    \/ RecvFragment(r, upstream, delays)
    \/ StreamFlush(r)
    \/ StreamEnds(r)
    \/ StreamFails(r)
    \/ FinalFlush(r)
    \/ SendDone(r)
    \/ HandleError(r)
    \/ WebsocketEndpointFinish(r)

\* A short token stream for the specification of the whole pipeline.
FewDeltas == {NoContent, Content(<<"a">>), Content(<<"o", "k", ".">>)}

\* One request, every planning answer, a short token stream.
Next == PipelineStep(1, Replies) \/ StreamStep(1, FewDeltas, {0})
Spec == Init /\ [][Next]_vars

\* _stream_llm_tokens alone: request 1 stands where respond_streaming calls
\* it after a planning answer that is no JSON object and hence no tool call.
InitStream ==
    /\ tools = Registry
    /\ pc = [r \in Requests |-> IF r = 1 THEN "s_open" ELSE "idle"]
    /\ reply = [r \in Requests |->
                   IF r = 1 THEN [doc |-> JStr("hello"), damage |-> "none"] ELSE NoReply]
    /\ plans = [r \in Requests |-> IF r = 1 THEN SentinelPlans ELSE Unset]
    /\ idx = [r \in Requests |-> IF r = 1 THEN 2 ELSE 1]
    /\ tool_results = [r \in Requests |-> JDict(<<>>)]
    /\ exc = [r \in Requests |-> NoExc]
    /\ sent = [r \in Requests |->
                  IF r = 1
                  THEN <<[status |-> "thinking"],
                         [status |-> "plan", data |-> SentinelPlans],
                         [status |-> "stream_start"]>>
                  ELSE <<>>]
    /\ closed = [r \in Requests |-> FALSE]
    /\ log = [r \in Requests |-> IF r = 1 THEN <<[op |-> "generate"]>> ELSE <<>>]
    /\ buffer = [r \in Requests |-> <<>>]
    /\ last_send_time = [r \in Requests |-> 0]
    /\ now = 0
    /\ deltas = [r \in Requests |-> <<>>]
    /\ fragments = [r \in Requests |-> <<>>]
    /\ yielded = [r \in Requests |-> <<>>]
    /\ pending_since = [r \in Requests |-> 0]
    /\ response = [r \in Requests |-> NoResponse]

NextStream == StreamStep(1, Deltas, Delays)
SpecStream == InitStream /\ [][NextStream]_vars

(***************************************************************************)
(* Several requests served by the one Agent at the same time.  The steps   *)
(* of the requests interleave in any order.  Every request asks for its    *)
(* own tool and streams its own letter, so that data crossing from one     *)
(* request to another shows.                                               *)
(***************************************************************************)

\* The plan the planning model returns for request r.
RequestPlan(r) ==
    CASE r = 1 -> PlanFinance
      [] r = 2 -> PlanUnregistered
      [] OTHER -> PlanWebSearch

\* The planning answer for request r.
RequestReplies(r) == {[doc |-> PlansDoc(JList(<<RequestPlan(r)>>)), damage |-> "none"]}

\* The letter of request r in the synthesis stream.
Letter(r) ==
    CASE r = 1 -> "a"
      [] r = 2 -> "b"
      [] OTHER -> "c"

\* The upstream chunks of request r: its letter before a full stop.
RequestDeltas(r) == {Content(<<Letter(r), ".">>)}

\* A step of request r, in respond_streaming or in respond, on a channel
\* that stays open.
ConcStep(r) ==
    \/ WebsocketConnect(r)
    \/ SendThinking(r)
    \/ StreamPlan(r, RequestReplies(r))
    \/ SendPlan(r)
    \/ SendToolCalling(r)
    \/ StreamCallTool(r)
    \/ SendToolResult(r)
    \/ SendToolError(r)
    \/ SendStreamStart(r)
    \/ StreamOpen(r, {0})
    \/ RecvFragment(r, RequestDeltas(r), {0})
    \/ StreamFlush(r)
    \/ StreamEnds(r)
    \/ FinalFlush(r)
    \/ SendDone(r)
    \/ HandleError(r)
    \/ WebsocketEndpointFinish(r)
    \/ QueryRequest(r)
    \/ RespondPlan(r, RequestReplies(r))
    \/ RespondCallTool(r)
    \/ RespondSynthesize(r)
    \/ QueryEndpointFinish(r)

NextConc == \E r \in Requests : ConcStep(r)
SpecConc == Init /\ [][NextConc]_vars

(***************************************************************************)
(* respond_streaming on a channel that stays open, run to its end: the     *)
(* event loop keeps resuming the coroutine, every call to the provider and *)
(* to a tool returns or raises, and the token stream is finite.            *)
(***************************************************************************)

\* The planning answers of the runs followed to their end: lists of a tool
\* that returns, a tool that raises, an unregistered tool, a plan without a
\* tool and an element that is no object; a value that is no list; text
\* that is no plan.
LivePlanElems ==
    {PlanFinance, PlanFinanceNoSymbol, PlanUnregistered, PlanNullTool, JNum(5)}
LiveDocs ==
    {PlansDoc(JList(L)) : L \in UNION {[1..len -> LivePlanElems] : len \in 0..MaxPlans}}
LiveReplies == [doc : LiveDocs \cup NoListDocs \cup OtherDocs, damage : {"none"}]

\* A step of respond_streaming for request r; the peer never closes.
LiveStep(r) ==
    \/ WebsocketConnect(r)
    \/ SendThinking(r)
    \/ StreamPlan(r, LiveReplies)
    \/ SendPlan(r)
    \/ StreamLoopRaises(r)
    \/ StreamSkipPlan(r)
    \/ SendToolCalling(r)
    \/ StreamCallTool(r)
    \/ SendToolResult(r)
    \/ SendToolError(r)
    \/ SendStreamStart(r)
    \/ StreamOpen(r, {0})
    \/ RecvFragment(r, FewDeltas, {0})
    \/ StreamFlush(r)
    \/ StreamEnds(r)
    \/ StreamFails(r)
    \/ FinalFlush(r)
    \/ SendDone(r)
    \/ HandleError(r)
    \/ WebsocketEndpointFinish(r)

NextLive == LiveStep(1)
SpecLive == Init /\ [][NextLive]_vars /\ WF_vars(NextLive)

(***************************************************************************)
(* The two paths side by side: request 1 goes through respond_streaming up *)
(* to the opening of its token stream, request 2 through respond, and the  *)
(* planning model gives request 2 the answer it gave request 1.            *)
(***************************************************************************)

\* respond_streaming up to its synthesis request.
StreamSide(r) ==
    \/ WebsocketConnect(r)
    \/ PeerCloses(r)
    \/ SendThinking(r)
    \/ StreamPlan(r, LiveReplies)
    \/ SendPlan(r)
    \/ StreamLoopRaises(r)
    \/ StreamSkipPlan(r)
    \/ SendToolCalling(r)
    \/ StreamCallTool(r)
    \/ SendToolResult(r)
    \/ SendToolError(r)
    \/ SendStreamStart(r)
    \/ StreamOpen(r, {0})
    \/ HandleError(r)
    \/ WebsocketEndpointFinish(r)

\* The planning answer of the streaming request, once it has one.
SameReply == IF reply[1] = NoReply THEN {} ELSE {reply[1]}

\* respond behind the query endpoint.
SyncSide(r) ==
    \/ QueryRequest(r)
    \/ RespondPlan(r, SameReply)
    \/ RespondLoopRaises(r)
    \/ RespondSkipPlan(r)
    \/ RespondCallTool(r)
    \/ RespondSynthesize(r)
    \/ QueryEndpointFinish(r)

NextPair == StreamSide(1) \/ SyncSide(2)
SpecPair == Init /\ [][NextPair]_vars

(***************************************************************************)
(* Reading the state.                                                      *)
(***************************************************************************)

\* The tag of a message: its status, or "text" for a raw send_text chunk.
Kind(msg) == IF "status" \in DOMAIN msg THEN msg.status ELSE "text"

\* The state machine of respond_streaming's messages: the state after msg
\* is sent in state st, "BAD" when the message is out of order.
AfterMessage(st, kind) ==
    CASE st = "START" /\ kind = "thinking" -> "THINKING"
      [] st = "THINKING" /\ kind = "plan" -> "PLANNED"
      [] st \in {"PLANNED", "TOOL_DONE"} /\ kind = "tool_calling" -> "TOOL_CALLING"
      [] st = "TOOL_CALLING" /\ kind \in {"tool_result", "tool_error"} -> "TOOL_DONE"
      [] st \in {"PLANNED", "TOOL_DONE"} /\ kind = "stream_start" -> "SYNTH_START"
      [] st \in {"SYNTH_START", "STREAMING"} /\ kind = "text" -> "STREAMING"
      [] st \in {"SYNTH_START", "STREAMING"} /\ kind = "done" -> "DONE"
      [] st \notin {"DONE", "ERROR", "BAD"} /\ kind = "error" -> "ERROR"
      [] OTHER -> "BAD"

RECURSIVE AfterMessages(_, _)
AfterMessages(st, msgs) ==
    IF msgs = <<>> THEN st
    ELSE AfterMessages(AfterMessage(st, Kind(Head(msgs))), Tail(msgs))

\* Where the messages sent so far leave the state machine.
Phase(r) == AfterMessages("START", sent[r])

\* How many messages of that kind were sent.
CountKind(r, kind) == Cardinality({i \in 1..Len(sent[r]) : Kind(sent[r][i]) = kind})

\* respond_streaming has returned on a channel that took every send.
StreamingReturned(r) == pc[r] \in {"s_returned", "ws_done"} /\ ~closed[r]

(***************************************************************************)
(* C1: on a working channel the messages of a respond_streaming run are    *)
(* one thinking, one plan, pairs of tool_calling and tool_result or        *)
(* tool_error, one stream_start, raw text chunks, one done, in that order. *)
(***************************************************************************)

\* C1 as stated: every run that has returned on a working channel has sent
\* the whole sequence, up to its done.
C1_EveryRunEndsDone ==
    \A r \in Requests : StreamingReturned(r) => Phase(r) = "DONE"

\* C1 as amended: the messages never leave the order of the state machine;
\* a run that returns without a failure escaping has sent the whole
\* sequence up to done, and a run in which a failure escaped has sent a
\* prefix of it and then one error.
C1_MessageOrder ==
    \A r \in Requests :
        /\ Phase(r) # "BAD"
        /\ StreamingReturned(r) /\ ~exc[r].raised => Phase(r) = "DONE"
        /\ StreamingReturned(r) /\ exc[r].raised => Phase(r) = "ERROR"

\* A full run: a tool result, a tool error and a text chunk, then done.
C1_Witness ==
    /\ StreamingReturned(1)
    /\ Phase(1) = "DONE"
    /\ CountKind(1, "tool_result") > 0
    /\ CountKind(1, "tool_error") > 0
    /\ CountKind(1, "text") > 0

(***************************************************************************)
(* C2: a failure that escapes the pipeline is answered by exactly one      *)
(* error event carrying its message, the last message of the run, and by   *)
(* no done event.                                                          *)
(***************************************************************************)

\* The run of request r is over and a failure escaped its pipeline.
EndedInFailure(r) == pc[r] \in {"s_returned", "s_raised", "ws_done"} /\ exc[r].raised

ErrorIsLast(r) ==
    /\ CountKind(r, "error") = 1
    /\ CountKind(r, "done") = 0
    /\ sent[r] # <<>>
    /\ sent[r][Len(sent[r])] = [status |-> "error", message |-> exc[r].msg]

\* C2 as stated: in every run in which a failure escapes.
C2_OneErrorEvent ==
    \A r \in Requests : EndedInFailure(r) => ErrorIsLast(r)

\* C2 as amended: in every such run on a channel that still takes the send.
C2_OneErrorEventWhileConnected ==
    \A r \in Requests : EndedInFailure(r) /\ ~closed[r] => ErrorIsLast(r)

\* The token stream failed after a chunk was sent; the error event followed.
C2_Witness ==
    /\ EndedInFailure(1)
    /\ ~closed[1]
    /\ exc[1].msg = ProviderError
    /\ CountKind(1, "text") > 0
    /\ ErrorIsLast(1)

(***************************************************************************)
(* Reading the log and the plans.                                          *)
(***************************************************************************)

IsToolCall(e) == e.op = "call_tool"
IsSynthesis(e) == "prompt" \in DOMAIN e /\ e.prompt = "response"

\* The call_tool entries of the log, in order.
ToolCalls(r) == SelectSeq(log[r], IsToolCall)

\* plans is a list of plan objects.
WellFormedPlans(r) ==
    /\ plans[r].k = "list"
    /\ \A i \in 1..Len(plans[r].items) : plans[r].items[i].k = "dict"

\* The plan carries a tool name: a "tool" key holding a non-empty string.
Named(plan) ==
    \E i \in 1..Len(plan.pairs) :
        /\ plan.pairs[i][1] = "tool"
        /\ plan.pairs[i][2].k = "str"
        /\ plan.pairs[i][2].s # ""

\* The tool name a named plan carries.
NameAt(plan) ==
    plan.pairs[CHOOSE i \in 1..Len(plan.pairs) : plan.pairs[i][1] = "tool"][2].s

\* The tool names of the first n plans that carry one, in list order.
RECURSIVE NamedPlanNames(_, _)
NamedPlanNames(items, n) ==
    IF n = 0 THEN <<>>
    ELSE IF Named(items[n])
         THEN Append(NamedPlanNames(items, n - 1), NameAt(items[n]))
         ELSE NamedPlanNames(items, n - 1)

\* The names call_tool was called with, in call order.
CalledNames(r) == [i \in 1..Len(ToolCalls(r)) |-> ToolCalls(r)[i].tool.s]

\* What a call leaves in the results map: the value, or the error record.
Outcome(call) ==
    IF call.out.ok THEN call.out.val
    ELSE [k |-> "dict", pairs |-> << <<"error", [k |-> "str", s |-> call.out.error]>> >>]

\* The last call made under that name.
LastCall(r, name) ==
    LET calls == ToolCalls(r)
        last == CHOOSE i \in 1..Len(calls) :
                    /\ calls[i].tool.s = name
                    /\ \A j \in (i + 1)..Len(calls) : calls[j].tool.s # name
    IN  calls[last]

Keys(d) == {d.pairs[i][1] : i \in 1..Len(d.pairs)}
Range(seq) == {seq[i] : i \in 1..Len(seq)}

(***************************************************************************)
(* C3: respond calls the tools of the named plans in list order, skips     *)
(* plans without a tool name, and its results map has one entry per tool   *)
(* name invoked, the outcome of the last plan of that name.                *)
(***************************************************************************)
C3_ToolsInListOrder ==
    \A r \in Requests :
        pc[r] \in {"r_loop", "r_returned", "r_raised", "http_done"} /\ WellFormedPlans(r) =>
            /\ CalledNames(r) = NamedPlanNames(plans[r].items, idx[r] - 1)
            /\ pc[r] # "r_loop" => idx[r] = Len(plans[r].items) + 1
            /\ Keys(tool_results[r]) = Range(CalledNames(r))
            /\ Len(tool_results[r].pairs) = Cardinality(Range(CalledNames(r)))
            /\ \A i \in 1..Len(tool_results[r].pairs) :
                   tool_results[r].pairs[i][2]
                       = Outcome(LastCall(r, tool_results[r].pairs[i][1]))

\* respond has returned after two plans of one name with different outcomes.
C3_Witness ==
    /\ pc[1] = "http_done"
    /\ response[1].status = 200
    /\ Len(ToolCalls(1)) = 2
    /\ ToolCalls(1)[1].tool = ToolCalls(1)[2].tool
    /\ ToolCalls(1)[1].out # ToolCalls(1)[2].out
    /\ Len(tool_results[1].pairs) = 1

(***************************************************************************)
(* C4: a tool that raises leaves {error: message} under its name, and the  *)
(* plans after it are still executed in their order: the failure neither   *)
(* aborts the request nor skips or reorders another tool.                  *)
(***************************************************************************)

\* How many plans the loop has dealt with.
PlansDone(r) ==
    IF pc[r] \in {"s_send_result", "s_send_error"} THEN idx[r] ELSE idx[r] - 1

InLoop(r) == pc[r] \in {"r_loop", "s_loop", "s_call", "s_send_result", "s_send_error"}

C4_ToolFailureIsRecorded ==
    \A r \in Requests :
        WellFormedPlans(r) /\ ~closed[r] /\ pc[r] # "s_send_plan" =>
            /\ CalledNames(r) = NamedPlanNames(plans[r].items, PlansDone(r))
            /\ ~InLoop(r) => PlansDone(r) = Len(plans[r].items)
            /\ \A name \in Range(CalledNames(r)) :
                   ~LastCall(r, name).out.ok =>
                       DictGet(tool_results[r], name, JNull)
                           = JDict(<< <<"error", JStr(LastCall(r, name).out.error)>> >>)
            /\ exc[r].raised => exc[r].msg = ProviderError

\* A streaming run completed although its first tool raised; the second ran.
C4_Witness ==
    /\ StreamingReturned(1)
    /\ Phase(1) = "DONE"
    /\ Len(ToolCalls(1)) = 2
    /\ ~ToolCalls(1)[1].out.ok
    /\ ToolCalls(1)[2].out.ok
    /\ Len(tool_results[1].pairs) = 2

(***************************************************************************)
(* C5: the synthesis request is made exactly once per respond call and per *)
(* respond_streaming call, whatever the planning model returned and        *)
(* whatever the tools did.                                                 *)
(***************************************************************************)

\* The call is over, the planning model had answered, and no send failed.
CallEnded(r) ==
    /\ pc[r] \in {"r_returned", "r_raised", "http_done", "s_returned", "ws_done"}
    /\ reply[r] # NoReply
    /\ ~closed[r]

C5_SynthesizeOnce ==
    \A r \in Requests :
        CallEnded(r) => Len(SelectSeq(log[r], IsSynthesis)) = 1

(***************************************************************************)
(* C6: a planning output that is not valid JSON, or that is valid JSON of  *)
(* another shape than {"plans": [...]} or a bare plan object, makes        *)
(* evaluate_prompt return the sentinel [{tool: null, args: {}}].           *)
(***************************************************************************)

\* The reply is one of the two accepted shapes, undamaged.
AcceptedShape(rep) ==
    /\ rep.damage = "none"
    /\ rep.doc.k = "dict"
    /\ \A i \in 1..Len(rep.doc.pairs) :
           rep.doc.pairs[i][1] = "plans" => rep.doc.pairs[i][2].k = "list"

C6_SentinelForOtherShapes ==
    \A r \in Requests :
        reply[r] # NoReply /\ ~AcceptedShape(reply[r]) =>
            plans[r] = JList(<<JDict(<< <<"tool", JNull>>, <<"args", JDict(<<>>)>> >>)>>)

(***************************************************************************)
(* C7: for an output {"plans": [...]} evaluate_prompt returns that list,   *)
(* element for element.                                                    *)
(***************************************************************************)
C7_PlansListReturned ==
    \A r \in Requests :
        /\ reply[r].damage = "none"
        /\ reply[r].doc.k = "dict"
        => \A i \in 1..Len(reply[r].doc.pairs) :
               /\ reply[r].doc.pairs[i][1] = "plans"
               /\ reply[r].doc.pairs[i][2].k = "list"
               => plans[r] = reply[r].doc.pairs[i][2]

\* A list of two came back as it was sent: a plan without a tool, a number.
C7_Witness ==
    /\ reply[1] = [doc |-> PlansDoc(JList(<<PlanNullTool, JNum(5)>>)), damage |-> "none"]
    /\ plans[1] = JList(<<PlanNullTool, JNum(5)>>)

(***************************************************************************)
(* C8: for an output that is a bare object without a "plans" key,          *)
(* evaluate_prompt returns the one-element list holding that object.       *)
(***************************************************************************)
C8_BareObjectWrapped ==
    \A r \in Requests :
        /\ reply[r].damage = "none"
        /\ reply[r].doc.k = "dict"
        /\ \A i \in 1..Len(reply[r].doc.pairs) : reply[r].doc.pairs[i][1] # "plans"
        => plans[r] = JList(<<reply[r].doc>>)

\* The empty object came back wrapped.
C8_Witness ==
    /\ reply[1] = [doc |-> PlanNoKeys, damage |-> "none"]
    /\ plans[1] = JList(<<PlanNoKeys>>)

(***************************************************************************)
(* C9: the chunks flushed by _stream_llm_tokens, the final flush included, *)
(* concatenate to the concatenation of the input fragments, and the chunks *)
(* sent on the channel are the chunks yielded.                             *)
(***************************************************************************)
RECURSIVE Concat(_)
Concat(seqs) == IF seqs = <<>> THEN <<>> ELSE Head(seqs) \o Concat(Tail(seqs))

IsText(msg) == Kind(msg) = "text"

\* The raw text chunks sent on the channel, in order.
TextsSent(r) ==
    LET texts == SelectSeq(sent[r], IsText)
    IN  [i \in 1..Len(texts) |-> texts[i].text]

\* The fragment sequence was read to its end and the final flush is done.
StreamCompleted(r) ==
    \/ pc[r] = "s_send_done"
    \/ pc[r] \in {"s_returned", "ws_done"} /\ ~exc[r].raised

C9_ChunksReconstructInput ==
    \A r \in Requests :
        /\ Concat(yielded[r]) \o buffer[r] = Concat(fragments[r])
        /\ TextsSent(r) = yielded[r]
        /\ StreamCompleted(r) => Concat(yielded[r]) = Concat(fragments[r])

\* Two words filled the buffer and were flushed as one chunk; the letter
\* after them left with the final flush.
C9_Witness ==
    /\ pc[1] = "s_send_done"
    /\ fragments[1] = <<Word10, Word10, <<"a">>>>
    /\ yielded[1] = <<Word10 \o Word10, <<"a">>>>

(***************************************************************************)
(* C10: once a fragment has entered an empty buffer, the buffered text is  *)
(* flushed within flush_interval of that moment, however late the next     *)
(* fragment arrives.                                                       *)
(***************************************************************************)
C10_FlushWithinInterval ==
    \A r \in Requests :
        pc[r] \in {"s_stream", "s_flush"} /\ buffer[r] # <<>> =>
            now - pending_since[r] <= flush_interval

(***************************************************************************)
(* C11: _stream_llm_tokens never sends and never yields an empty chunk,    *)
(* whatever the fragments are, empty fragments and no fragment included.   *)
(***************************************************************************)
C11_NoEmptyChunk ==
    \A r \in Requests :
        /\ \A i \in 1..Len(yielded[r]) : Len(yielded[r][i]) >= 1
        /\ \A i \in 1..Len(sent[r]) :
               Kind(sent[r][i]) = "text" => Len(sent[r][i].text) >= 1

\* The stream was two empty fragments around one letter; after the final
\* flush on an empty buffer the letter is the only chunk.
C11_Witness ==
    /\ pc[1] = "s_send_done"
    /\ deltas[1] = <<NoContent, Content(<<"a">>), Content(<<>>)>>
    /\ yielded[1] = <<<<"a">>>>
    /\ TextsSent(1) = <<<<"a">>>>

(***************************************************************************)
(* C12: a synthesis prompt built from an empty results map embeds the      *)
(* marker "No tool results available." and not the serialised empty map,   *)
(* in respond and in respond_streaming alike.                              *)
(***************************************************************************)
C12_MarkerForEmptyResults ==
    \A r \in Requests :
        \A i \in 1..Len(log[r]) :
            IsSynthesis(log[r][i]) /\ tool_results[r] = JDict(<<>>) =>
                log[r][i].tool_output = <<WordTok("No tool results available.")>>

(***************************************************************************)
(* C13: in the synchronous path the caller receives a failure only when    *)
(* the provider fails during the synthesis call; every other failure is    *)
(* absorbed and a final response is returned.                              *)
(***************************************************************************)

\* respond has raised, or the query endpoint has answered 500 for it.
SyncFailed(r) == pc[r] \in {"r_raised", "http_done"} /\ exc[r].raised

\* The last call the request made.
LastLogged(r) == log[r][Len(log[r])]

IsToolEvent(msg) == Kind(msg) \in {"tool_result", "tool_error"}

\* The tool_result and tool_error events sent, in order.
ToolEvents(r) == SelectSeq(sent[r], IsToolEvent)

\* The exception of call_tool for a name it does not know.
NotRegistered(name) ==
    [ok |-> FALSE, error |-> "Tool '" \o name \o "' not registered."]

\* respond or respond_streaming has ended for the request.
RunOver(r) ==
    pc[r] \in {"r_returned", "r_raised", "http_done", "s_returned", "ws_done"}

C14_UnregisteredToolRecovered ==
    \A r \in Requests :
        WellFormedPlans(r) /\ ~closed[r] =>
            \A i \in 1..Len(ToolCalls(r)) :
                LET call == ToolCalls(r)[i]
                    name == call.tool.s
                IN  name \notin {"FinanceTool", "WebSearchTool"} =>
                        /\ call.out = NotRegistered(name)
                        /\ LastCall(r, name) = call =>
                               DictGet(tool_results[r], name, JNull)
                                   = JDict(<< <<"error", JStr(NotRegistered(name).error)>> >>)
                        /\ sent[r] # <<>> =>
                               /\ Len(ToolEvents(r)) >= i - 1
                               /\ Len(ToolEvents(r)) = i - 1 =>
                                      pc[r] = "s_send_error" /\ i = Len(ToolCalls(r))
                               /\ Len(ToolEvents(r)) >= i =>
                                      ToolEvents(r)[i]
                                          = [status |-> "tool_error", tool |-> call.tool,
                                             error |-> NotRegistered(name).error]
                        /\ RunOver(r) =>
                               /\ CalledNames(r)
                                      = NamedPlanNames(plans[r].items, Len(plans[r].items))
                               /\ Len(SelectSeq(log[r], IsSynthesis)) = 1

\* A streaming run completed: the unregistered tool got its tool_error, the
\* registered tool after it ran and returned.
C14_Witness ==
    /\ StreamingReturned(1)
    /\ Phase(1) = "DONE"
    /\ Len(ToolCalls(1)) = 2
    /\ ToolCalls(1)[1].tool = JStr("Calculator")
    /\ ToolCalls(1)[2].tool = JStr("FinanceTool")
    /\ ToolCalls(1)[2].out.ok
    /\ Kind(ToolEvents(1)[1]) = "tool_error"
    /\ Kind(ToolEvents(1)[2]) = "tool_result"

(***************************************************************************)
(* C15: when the peer closes the channel during a respond_streaming run,   *)
(* the pipeline stops at the first failed send: no further tool is         *)
(* executed, no further generation request is made, and no failure is left *)
(* unhandled.                                                              *)
(***************************************************************************)

\* A send of the run has failed: its exception is the one that escaped, or
\* it was the tool_result send, whose exception the tool's except clause
\* took for a tool failure.
SendFailed(r) ==
    \/ exc[r] = [raised |-> TRUE, msg |-> "websocket disconnected"]
    \/ /\ pc[r] = "s_send_error"
       /\ ToolCalls(r)[Len(ToolCalls(r))].out.ok

\* C15 as stated, in its last part: respond_streaming returns without
\* raising.
C15_ReturnsWithoutRaising ==
    \A r \in Requests : closed[r] => pc[r] # "s_raised"

\* C15 as amended: after the first failed send no call is made and nothing
\* is sent, the run only unwinds through its except clauses; the failed
\* send's exception leaves respond_streaming, on a closed channel only, and
\* websocket_endpoint takes it.
C15_StopsAfterFailedSend ==
    /\ [][\A r \in Requests :
              SendFailed(r) =>
                  /\ log'[r] = log[r]
                  /\ sent'[r] = sent[r]
                  /\ pc'[r] \in {"s_send_error", "s_except", "s_raised", "ws_done"}
                  /\ pc[r] \in {"s_raised", "ws_done"} => pc'[r] = "ws_done"]_vars
    /\ [](\A r \in Requests :
              /\ SendFailed(r) => closed[r]
              /\ pc[r] = "s_raised" =>
                     /\ closed[r]
                     /\ exc[r] = [raised |-> TRUE, msg |-> "websocket disconnected"])

\* The peer left while the first tool ran: the tool_result send failed, the
\* second plan was never called, no synthesis was requested, and the
\* exception that left respond_streaming ended in websocket_endpoint.
C15_Witness ==
    /\ pc[1] = "ws_done"
    /\ closed[1]
    /\ exc[1].raised
    /\ plans[1] = JList(<<PlanFinance, PlanWebSearch>>)
    /\ Len(ToolCalls(1)) = 1
    /\ ToolCalls(1)[1].out.ok
    /\ Len(SelectSeq(log[1], IsSynthesis)) = 0
    /\ Kind(sent[1][Len(sent[1])]) = "tool_calling"

(***************************************************************************)
(* C16: the steps of one respond or respond_streaming call are strictly    *)
(* sequential: the planning call completes before any tool runs, tool i    *)
(* completes before tool i+1 starts, the synthesis call starts only after  *)
(* the last tool has completed, and no two of them are in progress         *)
(* together.                                                               *)
(***************************************************************************)

\* The planning call as the log records it.
IsPlanning(e) == e = [op |-> "generate"]

\* The synthesis request of the request has been made.
SynthesisStarted(r) == \E i \in 1..Len(log[r]) : IsSynthesis(log[r][i])

\* A tool execution is awaited or just over: between the tool_calling
\* event and the event that reports its outcome.
ToolInProgress(r) == pc[r] \in {"s_call", "s_send_result", "s_send_error"}

\* The token stream of the synthesis is open.
GenerationInProgress(r) == pc[r] \in {"s_stream", "s_flush", "s_final_flush"}

C16_StrictlySequential ==
    /\ [](\A r \in Requests :
              /\ \A i \in 1..Len(log[r]) :
                     /\ i = 1 => IsPlanning(log[r][i])
                     /\ i > 1 =>
                            \/ IsToolCall(log[r][i]) /\ "out" \in DOMAIN log[r][i]
                            \/ IsSynthesis(log[r][i]) /\ i = Len(log[r])
              /\ ToolInProgress(r) \/ GenerationInProgress(r) =>
                     /\ log[r] # <<>>
                     /\ IsPlanning(log[r][1])
              /\ ToolInProgress(r) =>
                     /\ ~SynthesisStarted(r)
                     /\ CountKind(r, "tool_calling") = Len(ToolEvents(r)) + 1
              /\ ~ToolInProgress(r) /\ ~closed[r] =>
                     CountKind(r, "tool_calling") = Len(ToolEvents(r))
              /\ GenerationInProgress(r) => IsSynthesis(LastLogged(r))
              /\ SynthesisStarted(r) /\ WellFormedPlans(r) =>
                     /\ CalledNames(r)
                            = NamedPlanNames(plans[r].items, Len(plans[r].items))
                     /\ sent[r] # <<>> => Len(ToolEvents(r)) = Len(ToolCalls(r)))
    /\ [][\A r \in Requests :
              /\ SynthesisStarted(r) => log'[r] = log[r]
              /\ Len(log'[r]) <= Len(log[r]) + 1
              /\ ToolInProgress(r) /\ Len(log'[r]) > Len(log[r]) =>
                     /\ pc[r] = "s_call"
                     /\ IsToolCall(LastLogged(r)')]_vars

\* A streaming run with two tools and a text chunk is done: planning, the
\* two calls and the synthesis are the log, in that order.
C16_Witness ==
    /\ StreamingReturned(1)
    /\ Phase(1) = "DONE"
    /\ Len(log[1]) = 4
    /\ IsPlanning(log[1][1])
    /\ log[1][2].tool = JStr("WebSearchTool")
    /\ log[1][3].tool = JStr("FinanceTool")
    /\ IsSynthesis(log[1][4])
    /\ CountKind(1, "text") > 0

(***************************************************************************)
(* C17: when several requests are served concurrently by one Agent, in any *)
(* interleaving, the registry is never modified, and the plans, the        *)
(* results map and the stream buffer of a request hold only data of that   *)
(* request.                                                                *)
(***************************************************************************)

\* The state that belongs to request r.
Locals(r) ==
    <<pc[r], reply[r], plans[r], idx[r], tool_results[r], exc[r], sent[r],
      closed[r], log[r], buffer[r], last_send_time[r], deltas[r], fragments[r],
      yielded[r], pending_since[r], response[r]>>

\* The characters of a text.
Chars(text) == {text[i] : i \in 1..Len(text)}

C17_RequestsIsolated ==
    /\ [](/\ tools = {"FinanceTool", "WebSearchTool"}
          /\ \A r \in Requests :
                 /\ plans[r] \in {Unset, JList(<<RequestPlan(r)>>)}
                 /\ \A i \in 1..Len(ToolCalls(r)) :
                        /\ ToolCalls(r)[i].tool = PlanTool(RequestPlan(r))
                        /\ ToolCalls(r)[i].args = PlanArgs(RequestPlan(r))
                 /\ Keys(tool_results[r]) = Range(CalledNames(r))
                 /\ \A i \in 1..Len(tool_results[r].pairs) :
                        tool_results[r].pairs[i][2]
                            = Outcome(LastCall(r, tool_results[r].pairs[i][1]))
                 /\ \A i \in 1..Len(fragments[r]) :
                        Chars(fragments[r][i]) \subseteq {Letter(r), "."}
                 /\ Concat(yielded[r]) \o buffer[r] = Concat(fragments[r])
                 /\ TextsSent(r) = yielded[r])
    /\ [][/\ tools' = tools
          /\ \E q \in Requests :
                 \A r \in Requests \ {q} : Locals(r)' = Locals(r)]_vars

\* Two requests are in their token streams at once, each with a chunk sent
\* and text in its buffer, each after its own tool call.
C17_Witness ==
    /\ pc[1] = "s_flush" /\ pc[2] = "s_flush"
    /\ yielded[1] = <<<<"a", ".">>>> /\ buffer[1] = <<"a", ".">>
    /\ yielded[2] = <<<<"b", ".">>>> /\ buffer[2] = <<"b", ".">>
    /\ Keys(tool_results[1]) = {"FinanceTool"}
    /\ Keys(tool_results[2]) = {"Calculator"}

(***************************************************************************)
(* C18: every fragment that generate_and_stream produces is a non-empty    *)
(* piece of text, the fragments come in upstream order, and they           *)
(* concatenate to the generated text, also when upstream deltas carry no   *)
(* content.                                                                *)
(***************************************************************************)

\* The text the upstream deltas carry, in emission order.
RECURSIVE GeneratedText(_)
GeneratedText(ds) ==
    IF ds = <<>> THEN <<>>
    ELSE (IF Head(ds).has THEN Head(ds).text ELSE <<>>) \o GeneratedText(Tail(ds))

C18_FragmentsNonEmpty ==
    \A r \in Requests :
        /\ \A i \in 1..Len(fragments[r]) : Len(fragments[r][i]) >= 1
        /\ Concat(fragments[r]) = GeneratedText(deltas[r])

(***************************************************************************)
(* C19: respond_streaming sends one tool_calling event per plan with a     *)
(* tool name; each is followed at once by exactly one event for the same   *)
(* tool, tool_result with the returned value when the execution            *)
(* succeeded, tool_error with the message when it failed; the results map  *)
(* entry is an error record exactly when the execution failed.             *)
(***************************************************************************)

\* {"error": <message>} and nothing else.
IsErrorRecord(v) ==
    v.k = "dict" /\ Len(v.pairs) = 1 /\ v.pairs[1][1] = "error"

\* The event that reports the outcome of a call.
OutcomeEvent(call) ==
    IF call.out.ok
    THEN [status |-> "tool_result", tool |-> call.tool, result |-> call.out.val]
    ELSE [status |-> "tool_error", tool |-> call.tool, error |-> call.out.error]

\* The tool loop of respond_streaming is over.
PastLoop(r) ==
    pc[r] \in {"s_open", "s_stream", "s_flush", "s_final_flush", "s_send_done"}
        \/ (pc[r] \in {"s_returned", "ws_done"} /\ SynthesisStarted(r))

C19_ToolEventsPaired ==
    \A r \in Requests :
        WellFormedPlans(r) /\ ~closed[r] /\ sent[r] # <<>> =>
            /\ CountKind(r, "tool_calling")
                   = Len(NamedPlanNames(plans[r].items, idx[r] - 1))
                         + (IF ToolInProgress(r) THEN 1 ELSE 0)
            /\ PastLoop(r) =>
                   CountKind(r, "tool_calling")
                       = Len(NamedPlanNames(plans[r].items, Len(plans[r].items)))
            /\ \A i \in 1..Len(sent[r]) :
                   Kind(sent[r][i]) = "tool_calling" =>
                       /\ i = Len(sent[r]) => ToolInProgress(r)
                       /\ i < Len(sent[r]) =>
                              /\ IsToolEvent(sent[r][i + 1])
                              /\ sent[r][i + 1].tool = sent[r][i].tool
                       /\ i + 1 < Len(sent[r]) => ~IsToolEvent(sent[r][i + 2])
            /\ Len(ToolEvents(r)) <= Len(ToolCalls(r))
            /\ \A j \in 1..Len(ToolEvents(r)) :
                   ToolEvents(r)[j] = OutcomeEvent(ToolCalls(r)[j])
            /\ \A name \in Range(CalledNames(r)) :
                   /\ DictGet(tool_results[r], name, JNull) = Outcome(LastCall(r, name))
                   /\ IsErrorRecord(DictGet(tool_results[r], name, JNull))
                          <=> ~LastCall(r, name).out.ok

\* Of two plans the one with a tool name was announced once; the tool
\* returned its report of a failed request, which went out as tool_result
\* and is no error record.
C19_Witness ==
    /\ StreamingReturned(1)
    /\ Phase(1) = "DONE"
    /\ plans[1] = JList(<<PlanNullTool, PlanFinance>>)
    /\ CountKind(1, "tool_calling") = 1
    /\ Kind(ToolEvents(1)[1]) = "tool_result"
    /\ HasKey(ToolEvents(1)[1].result, "error")

(***************************************************************************)
(* C20: after a non-empty fragment is appended to the buffer, a flush      *)
(* happens if and only if the buffer holds at least 20 characters, or at   *)
(* least the flush interval has passed since the last flush, or the        *)
(* buffer ends in a space, newline, tab or one of . , : ; ! ?  A flush     *)
(* sends the whole buffer as one chunk, empties the buffer and resets the  *)
(* last-flush time.                                                        *)
(***************************************************************************)

\* The step appends a non-empty fragment to the buffer of request r.
FragmentAppended(r) ==
    /\ Len(fragments'[r]) = Len(fragments[r]) + 1
    /\ fragments'[r][Len(fragments'[r])] # <<>>

C20_FlushIffCondition ==
    /\ [][\A r \in Requests :
              /\ FragmentAppended(r) =>
                     /\ buffer'[r] = buffer[r] \o fragments'[r][Len(fragments'[r])]
                     /\ pc'[r] \in {"s_flush", "s_stream"}
                     /\ pc'[r] = "s_flush" <=>
                            \/ Len(buffer'[r]) >= 20
                            \/ now' - last_send_time[r] >= 50
                            \/ buffer'[r][Len(buffer'[r])]
                                   \in {" ", "\n", "\t", ".", ",", ":", ";", "!", "?"}
              /\ pc[r] = "s_flush" /\ pc'[r] # "s_flush" =>
                     IF closed[r]
                     THEN pc'[r] = "s_except" /\ sent'[r] = sent[r]
                     ELSE /\ pc'[r] = "s_stream"
                          /\ sent'[r] = Append(sent[r], [text |-> buffer[r]])
                          /\ yielded'[r] = Append(yielded[r], buffer[r])
                          /\ buffer'[r] = <<>>
                          /\ last_send_time'[r] = now
              /\ pc[r] = "s_stream" /\ pc'[r] = "s_stream" =>
                     sent'[r] = sent[r] /\ last_send_time'[r] = last_send_time[r]]_vars
    /\ [](\A r \in Requests : pc[r] = "s_flush" => buffer[r] # <<>>)

\* Three letters: the first two stayed in the buffer, no condition holding;
\* with the third, 60 ms after the stream opened, all three left as one
\* chunk.
C20_Witness ==
    /\ pc[1] = "s_stream"
    /\ fragments[1] = <<<<"a">>, <<"a">>, <<"a">>>>
    /\ yielded[1] = <<<<"a", "a", "a">>>>
    /\ buffer[1] = <<>>
    /\ now = 60
    /\ last_send_time[1] = 60

(***************************************************************************)
(* C21: on a working channel, with a finite fragment stream and tools that *)
(* return or fail, every respond_streaming run terminates, its last        *)
(* message is done or error, nothing is sent after either, and no run      *)
(* sends both.                                                             *)
(***************************************************************************)

\* The message closes a run.
IsTerminal(msg) == Kind(msg) \in {"done", "error"}

C21_TerminatesDoneOrError ==
    /\ \A r \in Requests : (pc[r] = "s_start") ~> (pc[r] = "ws_done")
    /\ [](\A r \in Requests :
              /\ \A i \in 1..(Len(sent[r]) - 1) : ~IsTerminal(sent[r][i])
              /\ CountKind(r, "done") + CountKind(r, "error") <= 1
              /\ pc[r] \in {"s_returned", "ws_done"} =>
                     /\ sent[r] # <<>>
                     /\ IsTerminal(sent[r][Len(sent[r])])
                     /\ CountKind(r, "done") + CountKind(r, "error") = 1
              /\ sent[r] # <<>> /\ IsTerminal(sent[r][Len(sent[r])]) =>
                     pc[r] \in {"s_returned", "ws_done"})

\* A run whose plans could not be iterated has ended: thinking, plan, error.
C21_Witness ==
    /\ pc[1] = "ws_done"
    /\ Len(sent[1]) = 3
    /\ Kind(sent[1][2]) = "plan"
    /\ sent[1][3] = [status |-> "error", message |-> "object is not iterable"]

(***************************************************************************)
(* C22: for the same plan list and the same tool outcomes, respond and     *)
(* respond_streaming call the same tools with the same arguments in the    *)
(* same order and hold the same results map when the synthesis starts.     *)
(***************************************************************************)

\* What a run called: tool and arguments of each call, in order.
Invocations(r) ==
    [i \in 1..Len(ToolCalls(r)) |->
        [tool |-> ToolCalls(r)[i].tool, args |-> ToolCalls(r)[i].args]]

\* Wherever the two runs made the same call at the same position, the tool
\* did the same.
SameOutcomes(a, b) ==
    \A i \in 1..Len(ToolCalls(a)) :
        i <= Len(ToolCalls(b)) /\ Invocations(a)[i] = Invocations(b)[i] =>
            ToolCalls(a)[i].out = ToolCalls(b)[i].out

C22_SameCallsSameResults ==
    /\ SynthesisStarted(1) /\ SynthesisStarted(2)
    /\ plans[1] = plans[2]
    /\ SameOutcomes(1, 2)
    => /\ Invocations(1) = Invocations(2)
       /\ tool_results[1] = tool_results[2]

\* Both paths made their synthesis request after two plans of one tool, the
\* first returning and the second raising: both hold the error record.
C22_Witness ==
    /\ SynthesisStarted(1) /\ SynthesisStarted(2)
    /\ pc[1] = "s_stream"
    /\ plans[1] = JList(<<PlanFinance, PlanFinanceNoSymbol>>)
    /\ plans[2] = plans[1]
    /\ SameOutcomes(1, 2)
    /\ Len(ToolCalls(2)) = 2
    /\ IsErrorRecord(DictGet(tool_results[1], "FinanceTool", JNull))
    /\ tool_results[2] = tool_results[1]

====
